---- MODULE Spec2Model ----
(***************************************************************************)
(* PDFCraft.Pro backend: the job orchestration engine of                   *)
(* PDFProcessorService (services/pdf_processor.py).                        *)
(*                                                                         *)
(* The service runs on one asyncio event loop.  A coroutine runs without   *)
(* interruption until it awaits something that suspends it, so the model   *)
(* carries the identity of the running task: a task steps only when it is  *)
(* the running one, or when nobody runs and it is parked at a suspension   *)
(* point.  Steps are single statements (or straight-line groups of         *)
(* statements that cannot raise), so that the order of writes inside one   *)
(* uninterrupted run is visible too.                                       *)
(*                                                                         *)
(* The rate governor of AuthenticationService (services/auth_service.py)   *)
(* and the API-key dependency that calls it (api/routes/auth.py) run on    *)
(* the same kind of loop and have a specification of their own, SpecRate.  *)
(*                                                                         *)
(* The PDF-to-PowerPoint pipeline (api/routes/conversion.py driving        *)
(* LibreOfficeProcessor, services/libreoffice_processor.py) is SpecConv,   *)
(* and SpecApi puts the job-creating routes next to the governor.          *)
(*                                                                         *)
(* SpecDefault is the engine with the default gate of 10 slots, in which   *)
(* several jobs are inside the gate at once; SpecFair and SpecConvFair add *)
(* the event loop's fairness to Spec and SpecConv for the liveness claims. *)
(***************************************************************************)
EXTENDS Integers, Sequences, FiniteSets, TLC

\* ------------------------------------------------------------------ bounds

\* Number of jobs submitted in one behaviour.
NumJobs == 2

\* MAX_CONCURRENT_JOBS of the environment (pdf_processor.py:43 reads it, the
\* default being 10); kept below NumJobs so that jobs have to wait.
max_concurrent_jobs == 1

\* API keys in existence, and requests made with them in one behaviour.
NumKeys == 2
NumRequests == 3

\* The clock counts ticks.  datetime has microseconds, 10^6 to the second, and
\* the hour 3600 seconds; the model keeps a second of several ticks and an
\* hour of several seconds, and runs the clock over NumHours hours.
TicksPerSecond == 2
SecondsPerHour == 2
NumHours == 2

\* Conversion requests accepted in one behaviour, and the size of the
\* conversion backend's pool (libreoffice_processor.py:26 sets it to 3); the
\* pool is kept below NumConversions so that conversions have to wait.
NumConversions == 2
max_concurrent_conversions == 1

\* --------------------------------------------------------------- constants

NONE == "None"
NoTask == 0
JobIds == 1 .. NumJobs

NoRequest == 0
NoKey == 0
ApiKeys == 1 .. NumKeys

\* rate_limit_per_hour of a key (APIKeyCreate accepts any int; a limit counts
\* requests, and one of NumRequests or more is never reached).
MaxLimit == NumRequests - 1
Limits == 0 .. MaxLimit
TicksPerHour == TicksPerSecond * SecondsPerHour
MaxClock == NumHours * TicksPerHour - 1

\* `rate_limit.retry_after or 3600` (api/routes/auth.py)
DefaultRetryAfter == 3600

\* self.libreoffice_path: an executable _find_libreoffice found (None is NONE).
SOFFICE == "soffice"

\* JobStatus (models/processing.py)
QUEUED == "queued"
PROCESSING == "processing"
COMPLETED == "completed"
FAILED == "failed"
CANCELLED == "cancelled"
JobStatus == {QUEUED, PROCESSING, COMPLETED, FAILED, CANCELLED}

\* ProcessingEngine (services/pdf_processor.py)
MUPDF == "mupdf"
PDFIUM == "pdfium"
ProcessingEngine == {MUPDF, PDFIUM}

\* options.operation is a free string of the request; "rotate" stands for any
\* string that is none of the five known ones.
Operations == {"merge", "split", "compress", "convert", "optimize", "rotate"}

\* Messages of the exceptions the engine can meet.
NoEngineError == "No PDF processing engine available"
AttributeError == "'PDFProcessorService' object has no attribute"
MuPDFError == "MuPDF compression failed"
PrintError == "print failed"

VARIABLES
    jobs,                   \* self.jobs: job id -> ProcessingJob
    metrics,                \* self.metrics: job id -> ProcessingMetrics
    tasks,                  \* the _process_job task of each job: its position
    processing_semaphore,   \* the value of self.processing_semaphore
    running,                \* the task the event loop is running, or NoTask
    engine_available        \* the *_available attributes the instance has

VARIABLES
    api_keys,               \* self.api_keys: key id -> rate_limit_per_hour
    rate_limits,            \* self.rate_limits: identifier -> hour -> bucket
    security_events,        \* self.security_events
    clock,                  \* datetime.utcnow(), in ticks
    requests,               \* the frame of each request made with an API key
    serving,                \* the request the event loop is running
    response                \* the outcome of the last request that ended

VARIABLES
    conversion_jobs,        \* conversion_jobs: job id -> the job's dict
    conversions,            \* the process_conversion_job task of each request
    conversion_semaphore,   \* the value of self.conversion_semaphore
    converting,             \* the conversion task the event loop is running
    disk,                   \* the files and directories of the temp directory
    libreoffice_path        \* self.libreoffice_path

processor == <<jobs, metrics, tasks, processing_semaphore, running,
               engine_available>>

governor == <<api_keys, rate_limits, security_events, clock, requests, serving,
              response>>

converter == <<conversion_jobs, conversions, conversion_semaphore, converting,
               disk, libreoffice_path>>

vars == <<jobs, metrics, tasks, processing_semaphore, running, engine_available,
          api_keys, rate_limits, security_events, clock, requests, serving,
          response, conversion_jobs, conversions, conversion_semaphore,
          converting, disk, libreoffice_path>>

\* ------------------------------------------------------- engine attributes

\* initialize() sets mupdf_available, then pdfium_available; an instance that
\* was never initialized (the one api/routes/processing.py builds) has neither
\* attribute, and one whose initialize() was cut short by an exception has
\* only the first.  The attributes never change once jobs are accepted.
EngineAttributes ==
    { f \in UNION { [D -> BOOLEAN] : D \in SUBSET {MUPDF, PDFIUM} } :
        PDFIUM \in DOMAIN f => MUPDF \in DOMAIN f }

HasAttr(name) == name \in DOMAIN engine_available

\* ---------------------------------------------------------- engine selection

Return(v) == [raised |-> FALSE, value |-> v]
Raise(msg) == [raised |-> TRUE, value |-> msg]

\* _select_engine with the first test dropped: performance preferred over
\* compliance.
select_engine_mupdf_first(require_enterprise_compliance, avail) ==
    IF MUPDF \notin DOMAIN avail THEN Raise(AttributeError)
    ELSE IF avail[MUPDF] THEN Return(MUPDF)
    ELSE IF PDFIUM \notin DOMAIN avail THEN Raise(AttributeError)
    ELSE IF avail[PDFIUM] THEN Return(PDFIUM)
    ELSE Raise(NoEngineError)

\* _select_engine ending on a default engine instead of the final raise.
select_engine_defaults_to_mupdf(require_enterprise_compliance, avail) ==
    IF require_enterprise_compliance /\ PDFIUM \notin DOMAIN avail
        THEN Raise(AttributeError)
    ELSE IF require_enterprise_compliance /\ avail[PDFIUM]
        THEN Return(PDFIUM)
    ELSE IF MUPDF \notin DOMAIN avail
        THEN Raise(AttributeError)
    ELSE IF avail[MUPDF]
        THEN Return(MUPDF)
    ELSE IF PDFIUM \notin DOMAIN avail
        THEN Raise(AttributeError)
    ELSE IF avail[PDFIUM]
        THEN Return(PDFIUM)
    ELSE Return(MUPDF)

\* _select_engine(job): reading an attribute the instance does not have raises
\* AttributeError; `and` short-circuits, so pdfium_available is read first only
\* for a compliance job.
select_engine(require_enterprise_compliance, avail) ==
    IF require_enterprise_compliance /\ PDFIUM \notin DOMAIN avail
        THEN Raise(AttributeError)
    ELSE IF require_enterprise_compliance /\ avail[PDFIUM]
        THEN Return(PDFIUM)
    ELSE IF MUPDF \notin DOMAIN avail
        THEN Raise(AttributeError)
    ELSE IF avail[MUPDF]
        THEN Return(MUPDF)
    ELSE IF PDFIUM \notin DOMAIN avail
        THEN Raise(AttributeError)
    ELSE IF avail[PDFIUM]
        THEN Return(PDFIUM)
    ELSE Raise(NoEngineError)

\* ------------------------------------------------------- operation handlers

\* _merge_pdfs with two milestones of its list exchanged.
MergeSteps_swapped == <<25, 75, 50, 90, 100>>

\* _compress_pdf_fallback with the last milestone of its list missing.
FallbackSteps_short == <<20, 40, 60, 80, 95>>

\* The progress values each handler writes, in the order it writes them.
MergeSteps == <<25, 50, 75, 90, 100>>
SplitSteps == <<10, 20, 30, 40, 50, 60, 70, 80, 90, 100>>
MupdfSteps == <<10, 30, 80, 100>>
FallbackSteps == <<20, 40, 60, 80, 95, 100>>
ConvertSteps == <<15, 35, 55, 75, 90, 100>>
OptimizeSteps == <<30, 60, 90, 100>>

\* The handler _process_job dispatches an operation to (lines 143-153) and,
\* for compress, the branch _compress_pdf takes (lines 242-245).
Handler(operation, engine, avail) ==
    IF operation = "merge" THEN "merge"
    ELSE IF operation = "split" THEN "split"
    ELSE IF operation = "compress" THEN
        IF engine = MUPDF /\ MUPDF \in DOMAIN avail /\ avail[MUPDF]
            THEN "compress_mupdf" ELSE "compress_fallback"
    ELSE IF operation = "convert" THEN "convert"
    ELSE "optimize"

Steps(handler) ==
    CASE handler = "merge" -> MergeSteps
      [] handler = "split" -> SplitSteps
      [] handler = "compress_mupdf" -> MupdfSteps
      [] handler = "compress_fallback" -> FallbackSteps
      [] handler = "convert" -> ConvertSteps
      [] handler = "optimize" -> OptimizeSteps

\* operation_performed of the ProcessingResult each handler returns.
OperationPerformed(handler) ==
    IF handler \in {"compress_mupdf", "compress_fallback"} THEN "compress"
    ELSE handler

\* Handlers that await asyncio.sleep before their first progress write.
SleepsFirst(handler) == handler \in {"merge", "convert", "optimize"}

\* Whether the handler awaits asyncio.sleep after its n-th progress write:
\* _split_pdf sleeps after every write, the loops guarded by
\* `if progress < 100` after every write but the last, _compress_pdf_mupdf
\* never.
SleepsAfter(handler, n) ==
    CASE handler = "split" -> TRUE
      [] handler = "compress_mupdf" -> FALSE
      [] OTHER -> Steps(handler)[n] < 100

\* The calls of _compress_pdf_mupdf that can raise, by the number of progress
\* writes done before them: fitz.open (0), doc.save (2), Path.stat (3),
\* doc.close (4).
MupdfCanRaiseAfter == {0, 2, 3, 4}

\* ---------------------------------------------------------------- the gate

\* A gate that admits every task.
SemaphoreNeverLocked(value) == FALSE

\* A gate whose slot is not handed back.
SemaphoreKept(value) == value

\* asyncio.Semaphore.locked(): no slot is free.
SemaphoreLocked(value) == value = 0

\* The exit of `async with self.processing_semaphore`, taken on return and on
\* an exception alike.
SemaphoreRelease(value) == value + 1

\* ------------------------------------------------------------------- state

\* An empty dict.
EmptyDict == [x \in {} |-> x]

\* No request has ended yet.
NoResponse == [status_code |-> 0, retry_after_header |-> <<>>]

\* LibreOfficeProcessor() as the import of the module builds it, before any
\* request: no job, every slot free, nothing in the temp directories, and the
\* executable not looked at by this part of the program.
ConverterAsConstructed ==
    /\ conversion_jobs = EmptyDict
    /\ conversions = <<>>
    /\ conversion_semaphore = max_concurrent_conversions
    /\ converting = NoTask
    /\ disk = EmptyDict
    /\ libreoffice_path = SOFFICE

Created == DOMAIN jobs

\* ProcessingJob as create_job builds it (status given, the rest defaulted).
NewJob(operation, require_enterprise_compliance) ==
    [ operation |-> operation,
      require_enterprise_compliance |-> require_enterprise_compliance,
      status |-> QUEUED,
      progress |-> 0,
      started_at |-> FALSE,       \* TRUE once a time has been written
      completed_at |-> FALSE,
      result |-> <<>>,            \* <<>> is None, <<r>> a ProcessingResult
      error |-> NONE ]

NewMetrics == [engine_used |-> NONE]

NewTask == [pc |-> "queued", handler |-> NONE, n |-> 0, exc |-> NONE]

\* A task that has ended: "done" if it returned, "raised" if an exception left
\* it; its locals are gone.
EndedTask(how) == [pc |-> how, handler |-> NONE, n |-> 0, exc |-> NONE]

\* Where a task is parked while suspended: waiting for a slot of the gate, or
\* inside asyncio.sleep.
YieldPoints == {"queued", "sleep"}
Finished == {"done", "raised"}

\* An event loop that never resumes a suspended task.
CanRun_never_resumed(j) == running = j

\* The event loop lets task j take its next step.
CanRun(j) ==
    \/ running = j
    \/ running = NoTask /\ tasks[j].pc \in YieldPoints

TypeOK ==
    /\ Created = 1 .. Cardinality(Created)
    /\ DOMAIN metrics = Created
    /\ DOMAIN tasks = Created
    /\ \A j \in Created :
        /\ jobs[j].status \in JobStatus
        /\ jobs[j].progress \in 0 .. 100
        /\ jobs[j].operation \in Operations
    /\ processing_semaphore \in 0 .. max_concurrent_jobs
    /\ running \in Created \cup {NoTask}
    /\ engine_available \in EngineAttributes

Init ==
    /\ jobs = <<>>
    /\ metrics = <<>>
    /\ tasks = <<>>
    /\ processing_semaphore = max_concurrent_jobs
    /\ running = NoTask
    /\ engine_available \in EngineAttributes
    /\ api_keys = EmptyDict
    /\ rate_limits = EmptyDict
    /\ security_events = <<>>
    /\ clock = 0
    /\ requests = <<>>
    /\ serving = NoRequest
    /\ response = NoResponse
    /\ ConverterAsConstructed

\* ----------------------------------------------------------------- actions

\* lines 95-117 of create_job: a fresh id, the job and its metrics recorded,
\* the task created (asyncio.create_task only schedules it).
RegisterJob(operation, require_enterprise_compliance) ==
    LET job_id == Cardinality(Created) + 1 IN
        /\ job_id \notin Created
        /\ jobs' = Append(jobs, NewJob(operation, require_enterprise_compliance))
        /\ metrics' = Append(metrics, NewMetrics)
        /\ tasks' = Append(tasks, NewTask)

\* create_job awaiting the gate itself before it returns.
create_job_waits_for_slot(operation, require_enterprise_compliance) ==
    /\ running = NoTask
    /\ Cardinality(Created) < NumJobs
    /\ ~SemaphoreLocked(processing_semaphore)
    /\ RegisterJob(operation, require_enterprise_compliance)
    /\ UNCHANGED <<processing_semaphore, running, engine_available>>
    /\ UNCHANGED governor
    /\ UNCHANGED converter

\* create_job: no await inside, so it runs in one piece whenever the loop
\* schedules the request.
create_job(operation, require_enterprise_compliance) ==
    /\ running = NoTask
    /\ Cardinality(Created) < NumJobs
    /\ RegisterJob(operation, require_enterprise_compliance)
    /\ UNCHANGED <<processing_semaphore, running, engine_available>>
    /\ UNCHANGED governor
    /\ UNCHANGED converter

\* _process_job, lines 126-136: enter the gate, look the records up, mark the
\* job PROCESSING.
process_job_begin(j) ==
    /\ running = NoTask
    /\ tasks[j].pc = "queued"
    /\ ~SemaphoreLocked(processing_semaphore)
    /\ IF j \notin DOMAIN jobs \/ j \notin DOMAIN metrics
         THEN \* `return` inside the gate: acquired and released at once
              /\ processing_semaphore' =
                    SemaphoreRelease(processing_semaphore - 1)
              /\ tasks' = [tasks EXCEPT ![j] = EndedTask("done")]
              /\ UNCHANGED <<jobs, running>>
         ELSE /\ processing_semaphore' = processing_semaphore - 1
              /\ jobs' = [jobs EXCEPT ![j].status = PROCESSING,
                                      ![j].started_at = TRUE]
              /\ tasks' = [tasks EXCEPT ![j].pc = "select"]
              /\ running' = j
    /\ UNCHANGED <<metrics, engine_available>>
    /\ UNCHANGED governor
    /\ UNCHANGED converter

\* lines 139-153: choose the engine, then enter the handler of the operation
\* up to its first await or progress write.
process_job_select_engine(j) ==
    /\ running = j
    /\ tasks[j].pc = "select"
    /\ LET r == select_engine(jobs[j].require_enterprise_compliance,
                              engine_available)
           h == Handler(jobs[j].operation, r.value, engine_available)
       IN IF r.raised
            THEN /\ tasks' = [tasks EXCEPT ![j].pc = "except",
                                           ![j].exc = r.value]
                 /\ UNCHANGED <<metrics, running>>
            ELSE /\ metrics' = [metrics EXCEPT ![j].engine_used = r.value]
                 /\ tasks' = [tasks EXCEPT
                        ![j].handler = h,
                        ![j].pc = IF SleepsFirst(h) THEN "sleep" ELSE "write"]
                 /\ running' = IF SleepsFirst(h) THEN NoTask ELSE j
    /\ UNCHANGED <<jobs, processing_semaphore, engine_available>>
    /\ UNCHANGED governor
    /\ UNCHANGED converter

\* One `job.progress = ...` of a handler, followed by the asyncio.sleep the
\* handler awaits after it, if any.
handler_write(j) ==
    /\ CanRun(j)
    /\ tasks[j].pc \in {"sleep", "write"}
    /\ LET h == tasks[j].handler
           n == tasks[j].n + 1
       IN /\ n <= Len(Steps(h))
          /\ jobs' = [jobs EXCEPT ![j].progress = Steps(h)[n]]
          /\ tasks' = [tasks EXCEPT
                ![j].n = n,
                ![j].pc = IF SleepsAfter(h, n) THEN "sleep" ELSE "write"]
          /\ running' = IF SleepsAfter(h, n) THEN NoTask ELSE j
    /\ UNCHANGED <<metrics, processing_semaphore, engine_available>>
    /\ UNCHANGED governor
    /\ UNCHANGED converter

\* _compress_pdf_mupdf, lines 251-308: a call into fitz or the file system
\* fails and is re-raised as "MuPDF compression failed".
compress_pdf_mupdf_raise(j) ==
    /\ running = j
    /\ tasks[j].pc = "write"
    /\ tasks[j].handler = "compress_mupdf"
    /\ tasks[j].n \in MupdfCanRaiseAfter
    /\ tasks' = [tasks EXCEPT ![j].pc = "except", ![j].exc = MuPDFError]
    /\ UNCHANGED <<jobs, metrics, processing_semaphore, running,
                   engine_available>>
    /\ UNCHANGED governor
    /\ UNCHANGED converter

\* The handler returns its ProcessingResult; lines 155-167 record the result:
\* assignments with no await between them.  Time is not modelled (a time
\* stamp is written or not), so the division of line 161 never fails here.
process_job_complete(j) ==
    /\ CanRun(j)
    /\ tasks[j].pc \in {"sleep", "write"}
    /\ tasks[j].n = Len(Steps(tasks[j].handler))
    /\ jobs' = [jobs EXCEPT
            ![j].status = COMPLETED,
            ![j].completed_at = TRUE,
            ![j].result =
                << [ success |-> TRUE,
                     operation_performed |->
                        OperationPerformed(tasks[j].handler),
                     engine_used |-> metrics[j].engine_used ] >>]
    /\ tasks' = [tasks EXCEPT ![j].pc = "log"]
    /\ running' = j
    /\ UNCHANGED <<metrics, processing_semaphore, engine_available>>
    /\ UNCHANGED governor
    /\ UNCHANGED converter

\* line 170, _log_performance: it only prints, and it runs inside the try
\* block.  A print to a stream that cannot encode the emoji of the message,
\* or that is closed, raises (main.py:51 records the encoding problem).
log_performance(j) ==
    /\ running = j
    /\ tasks[j].pc = "log"
    /\ \E printed \in BOOLEAN :
        IF printed
          THEN /\ tasks' = [tasks EXCEPT ![j] = EndedTask("done")]
               /\ processing_semaphore' =
                    SemaphoreRelease(processing_semaphore)
               /\ running' = NoTask
          ELSE /\ tasks' = [tasks EXCEPT ![j].pc = "except",
                                         ![j].exc = PrintError]
               /\ UNCHANGED <<processing_semaphore, running>>
    /\ UNCHANGED <<jobs, metrics, engine_available>>
    /\ UNCHANGED governor
    /\ UNCHANGED converter

\* An except clause that marks every job of the table failed.
process_job_except_all(j) ==
    /\ running = j
    /\ tasks[j].pc = "except"
    /\ jobs' = [k \in DOMAIN jobs |->
                    [jobs[k] EXCEPT !.status = FAILED,
                                    !.error = tasks[j].exc,
                                    !.completed_at = TRUE]]
    /\ tasks' = [tasks EXCEPT ![j].pc = "print"]
    /\ UNCHANGED <<metrics, processing_semaphore, running, engine_available>>
    /\ UNCHANGED governor
    /\ UNCHANGED converter

\* lines 172-176: the except clause records the failure.
process_job_except(j) ==
    /\ running = j
    /\ tasks[j].pc = "except"
    /\ jobs' = [jobs EXCEPT ![j].status = FAILED,
                            ![j].error = tasks[j].exc,
                            ![j].completed_at = TRUE]
    /\ tasks' = [tasks EXCEPT ![j].pc = "print"]
    /\ UNCHANGED <<metrics, processing_semaphore, running, engine_available>>
    /\ UNCHANGED governor
    /\ UNCHANGED converter

\* line 178: the print of the except clause; if it raises, the exception
\* leaves the task through the gate, which releases the slot.
process_job_print_failure(j) ==
    /\ running = j
    /\ tasks[j].pc = "print"
    /\ \E printed \in BOOLEAN :
        tasks' = [tasks EXCEPT
            ![j] = EndedTask(IF printed THEN "done" ELSE "raised")]
    /\ processing_semaphore' = SemaphoreRelease(processing_semaphore)
    /\ running' = NoTask
    /\ UNCHANGED <<jobs, metrics, engine_available>>
    /\ UNCHANGED governor
    /\ UNCHANGED converter

Next ==
    \/ \E operation \in Operations, compliance \in BOOLEAN :
            create_job(operation, compliance)
    \/ \E j \in Created : process_job_begin(j)
    \/ \E j \in Created : process_job_select_engine(j)
    \/ \E j \in Created : handler_write(j)
    \/ \E j \in Created : compress_pdf_mupdf_raise(j)
    \/ \E j \in Created : process_job_complete(j)
    \/ \E j \in Created : log_performance(j)
    \/ \E j \in Created : process_job_except(j)
    \/ \E j \in Created : process_job_print_failure(j)

Spec == Init /\ [][Next]_vars

\* The default of MAX_CONCURRENT_JOBS (line 43).
DefaultMaxConcurrentJobs == 10

\* The service as constructed in an environment that does not set
\* MAX_CONCURRENT_JOBS: the gate has room for every job of a behaviour, so the
\* tasks of several jobs are inside it at once.
InitDefault ==
    /\ jobs = <<>>
    /\ metrics = <<>>
    /\ tasks = <<>>
    /\ processing_semaphore = DefaultMaxConcurrentJobs
    /\ running = NoTask
    /\ engine_available \in EngineAttributes
    /\ api_keys = EmptyDict
    /\ rate_limits = EmptyDict
    /\ security_events = <<>>
    /\ clock = 0
    /\ requests = <<>>
    /\ serving = NoRequest
    /\ response = NoResponse
    /\ ConverterAsConstructed

SpecDefault == InitDefault /\ [][Next]_vars

\* One step of the task of job j.
TaskStep(j) ==
    /\ j \in Created
    /\ \/ process_job_begin(j)
       \/ process_job_select_engine(j)
       \/ handler_write(j)
       \/ compress_pdf_mupdf_raise(j)
       \/ process_job_complete(j)
       \/ log_performance(j)
       \/ process_job_except(j)
       \/ process_job_print_failure(j)

\* The event loop runs every task that is ready: a task whose next step stays
\* possible takes it (a sleep ends, a handler returns, a free slot is handed
\* to a task that waits for it).  Requests come as they like.
SpecFair == Spec /\ \A j \in JobIds : WF_vars(TaskStep(j))

\* ------------------------------------------------------- the rate governor

\* f"api_key:{api_key_record.id}", the identifier the dependency passes.
Identifier(key) == <<"api_key", key>>

\* A key format without the hour.
HourKey_without_hour(now) == 0

\* now.strftime("%Y%m%d%H"): one key per wall-clock hour.
HourKey(now) == now \div TicksPerHour

\* now.replace(minute=0, second=0, microsecond=0) + timedelta(hours=1)
NextHourStart(now) == (now \div TicksPerHour + 1) * TicksPerHour

\* int(delta.total_seconds()) of a delta that is not negative.
WholeSeconds(ticks) == ticks \div TicksPerSecond

Max(a, b) == IF a >= b THEN a ELSE b

\* `if identifier not in self.rate_limits: self.rate_limits[identifier] = {}`
WithIdentifier(table, identifier) ==
    IF identifier \in DOMAIN table THEN table
    ELSE table @@ (identifier :> EmptyDict)

\* The bucket a missing hour key stands for.
FreshBucket(now) == [count |-> 0, reset_time |-> NextHourStart(now)]

\* self.rate_limits[identifier].get(hour_key, {...})
HourData(table, identifier, now) ==
    IF identifier \in DOMAIN table /\ HourKey(now) \in DOMAIN table[identifier]
        THEN table[identifier][HourKey(now)]
        ELSE FreshBucket(now)

\* check_rate_limit computing requests_remaining without the max(0, ...).
check_rate_limit_unclamped(table, now, identifier, limit) ==
    LET hour_data == HourData(table, identifier, now)
        requests_remaining == limit - hour_data.count
    IN [ rate_limits |-> WithIdentifier(table, identifier),
         logs_event |-> requests_remaining = 0,
         info |-> [ requests_remaining |-> requests_remaining,
                    requests_limit |-> limit,
                    reset_time |-> hour_data.reset_time,
                    retry_after |->
                        IF requests_remaining = 0
                            THEN << WholeSeconds(hour_data.reset_time - now) >>
                            ELSE <<>> ] ]

\* check_rate_limit(identifier, limit) called at time now on the table: the
\* table it leaves, whether it logs a security event, and the RateLimitInfo it
\* returns (retry_after: <<>> is None).
check_rate_limit(table, now, identifier, limit) ==
    LET hour_data == HourData(table, identifier, now)
        requests_remaining == Max(0, limit - hour_data.count)
    IN [ rate_limits |-> WithIdentifier(table, identifier),
         logs_event |-> requests_remaining = 0,
         info |-> [ requests_remaining |-> requests_remaining,
                    requests_limit |-> limit,
                    reset_time |-> hour_data.reset_time,
                    retry_after |->
                        IF requests_remaining = 0
                            THEN << WholeSeconds(hour_data.reset_time - now) >>
                            ELSE <<>> ] ]

\* consume_rate_limit assigning the identifier a new dict holding only the
\* current hour's bucket.
consume_rate_limit_forgets(table, now, identifier) ==
    LET hour_data == HourData(table, identifier, now)
    IN [WithIdentifier(table, identifier) EXCEPT ![identifier] =
            (HourKey(now) :> [hour_data EXCEPT !.count = @ + 1])]

\* consume_rate_limit(identifier) called at time now: the table it leaves.
consume_rate_limit(table, now, identifier) ==
    LET with_id == WithIdentifier(table, identifier)
        hour_key == HourKey(now)
        with_hour ==
            IF hour_key \in DOMAIN with_id[identifier] THEN with_id
            ELSE [with_id EXCEPT ![identifier] =
                        @ @@ (hour_key :> FreshBucket(now))]
    IN [with_hour EXCEPT ![identifier][hour_key].count = @ + 1]

\* SecurityEvent as _log_security_event builds it for check_rate_limit; its
\* id, time and details are left out, nothing reads them back.
RateLimitEvent == [event_type |-> "rate_limit_exceeded"]

\* "Retry-After": str(rate_limit.retry_after or 3600): None and 0 are falsy.
RetryAfterHeader(info) ==
    IF info.retry_after = <<>> THEN DefaultRetryAfter
    ELSE IF info.retry_after[1] = 0 THEN DefaultRetryAfter
    ELSE info.retry_after[1]

\* The event loop lets request r run whenever it likes.
LoopRuns_preemptive(now_serving, r) == TRUE

\* The event loop lets request r run: a new request when no handler is
\* running, a request inside its handler when it is the running one.  The
\* awaits of get_current_user_from_api_key from line 77 on never suspend
\* (check_rate_limit, _log_security_event and consume_rate_limit await
\* nothing that yields), so a handler is never parked.
LoopRuns(now_serving, r) == now_serving = NoRequest \/ now_serving = r

\* ----------------------------------------------------- governor's actions

\* The frame of a request whose handler is over: its locals are gone.
EndedRequest == [key |-> NoKey, pc |-> "done", rate_limit |-> <<>>]

\* Wall-clock time passes, also while a handler runs.
tick ==
    /\ clock < MaxClock
    /\ clock' = clock + 1
    /\ UNCHANGED <<api_keys, rate_limits, security_events, requests, serving,
                   response>>
    /\ UNCHANGED processor
    /\ UNCHANGED converter

\* get_current_user_from_api_key, lines 76-80, for a request whose key was
\* verified by lines 50-74: the call of check_rate_limit.  When it logs the
\* security event, the print of _log_security_event may raise after the event
\* was appended, and the request ends as an internal error.
api_key_request_check(key) ==
    LET r == Len(requests) + 1
        checked == check_rate_limit(rate_limits, clock, Identifier(key),
                                    api_keys[key])
    IN /\ r <= NumRequests
       /\ LoopRuns(serving, r)
       /\ rate_limits' = checked.rate_limits
       /\ security_events' =
            IF checked.logs_event
                THEN Append(security_events, RateLimitEvent)
                ELSE security_events
       /\ \E printed \in BOOLEAN :
            IF printed \/ ~checked.logs_event
              THEN /\ requests' = Append(requests,
                        [ key |-> key, pc |-> "checked",
                          rate_limit |-> << checked.info >> ])
                   /\ serving' = r
                   /\ UNCHANGED response
              ELSE /\ requests' = Append(requests, EndedRequest)
                   /\ response' = [ status_code |-> 500,
                                    retry_after_header |-> <<>> ]
                   /\ UNCHANGED serving
       /\ UNCHANGED <<api_keys, clock>>
       /\ UNCHANGED processor
       /\ UNCHANGED converter

\* lines 82-92: no request remains, the request is denied.
api_key_request_deny(r) ==
    /\ requests[r].pc = "checked"
    /\ LoopRuns(serving, r)
    /\ requests[r].rate_limit[1].requests_remaining <= 0
    /\ requests' = [requests EXCEPT ![r] = EndedRequest]
    /\ response' =
            [ status_code |-> 429,
              retry_after_header |->
                << RetryAfterHeader(requests[r].rate_limit[1]) >> ]
    /\ serving' = NoRequest
    /\ UNCHANGED <<api_keys, rate_limits, security_events, clock>>
    /\ UNCHANGED processor
    /\ UNCHANGED converter

\* line 95 and the return: the request is counted and goes on to its route.
api_key_request_consume(r) ==
    /\ requests[r].pc = "checked"
    /\ LoopRuns(serving, r)
    /\ requests[r].rate_limit[1].requests_remaining > 0
    /\ rate_limits' = consume_rate_limit(rate_limits, clock,
                                         Identifier(requests[r].key))
    /\ requests' = [requests EXCEPT ![r] = EndedRequest]
    /\ response' = [status_code |-> 200, retry_after_header |-> <<>>]
    /\ serving' = NoRequest
    /\ UNCHANGED <<api_keys, security_events, clock>>
    /\ UNCHANGED processor
    /\ UNCHANGED converter

NextRate ==
    \/ tick
    \/ \E key \in DOMAIN api_keys : api_key_request_check(key)
    \/ \E r \in DOMAIN requests : api_key_request_deny(r)
    \/ \E r \in DOMAIN requests : api_key_request_consume(r)

\* The governor alone, from the moment the keys have been created
\* (create_api_key stores each with the rate_limit_per_hour of its request)
\* and no request has been made with them yet; the processing service is
\* left as constructed and not initialized.
InitRate ==
    /\ jobs = <<>>
    /\ metrics = <<>>
    /\ tasks = <<>>
    /\ processing_semaphore = max_concurrent_jobs
    /\ running = NoTask
    /\ engine_available = EmptyDict
    /\ api_keys \in [ApiKeys -> Limits]
    /\ rate_limits = EmptyDict
    /\ security_events = <<>>
    /\ clock = 0
    /\ requests = <<>>
    /\ serving = NoRequest
    /\ response = NoResponse
    /\ ConverterAsConstructed

SpecRate == InitRate /\ [][NextRate]_vars

TypeOKRate ==
    /\ DOMAIN api_keys \subseteq ApiKeys
    /\ \A key \in DOMAIN api_keys : api_keys[key] \in Limits
    /\ clock \in 0 .. MaxClock
    /\ serving \in (DOMAIN requests) \cup {NoRequest}
    /\ Len(requests) <= NumRequests
    /\ \A identifier \in DOMAIN rate_limits :
        \A hour_key \in DOMAIN rate_limits[identifier] :
            /\ rate_limits[identifier][hour_key].count \in 1 .. NumRequests
            /\ rate_limits[identifier][hour_key].reset_time
                    = (hour_key + 1) * TicksPerHour

\* ------------------------------------------------- the conversion pipeline

ConversionIds == 1 .. NumConversions

\* Paths under tempfile.gettempdir(): the upload of a job, its working
\* directory, and its converted file.
UploadPath(job_id) == <<"pdf_uploads/upload.pdf", job_id>>
JobTempDir(job_id) == <<"libreoffice_processor/job", job_id>>
FinalOutput(job_id) == <<"libreoffice_processor/converted.pptx", job_id>>

\* disk maps each path that exists to what it holds: for a working directory
\* and for a converted file the presentation files in it, as sequence.
\* A removal that fails silently (rmtree with ignore_errors).
Remove_nothing(d, path) == d

\* os.unlink and shutil.rmtree of a path, if it exists
Remove(d, path) == [p \in (DOMAIN d) \ {path} |-> d[p]]
Put(d, path, content) == [p \in (DOMAIN d) \cup {path} |->
                                IF p = path THEN content ELSE d[p]]

\* A presentation file, as far as _validate_pptx_file looks at it: its size
\* in bytes and whether it is a ZIP archive holding both required entries.
MinPptxBytes == 1024
Artifacts == [size : {MinPptxBytes - 1, MinPptxBytes}, manifest_ok : BOOLEAN]

\* _validate_pptx_file
validate_pptx_file(artifact) ==
    IF artifact.size < MinPptxBytes THEN FALSE ELSE artifact.manifest_ok

\* Texts the external tool writes to stderr; the first two are the ones
\* lines 131 and 233 look for.
NoExportFilter == "Error: no export filter"
PlatformLibraries == "Error: platform independent libraries"
OtherDiagnostic == "Error: source file could not be loaded"
UnsupportedSignatures == {NoExportFilter, PlatformLibraries}

\* The fixed parts of the error messages.  A message is the sequence of its
\* parts, so that a text searched in it (`in str(e)`) is found in the message
\* whenever one part of it carries the text.
TimedOut == "LibreOffice command timed out after 30s"
ExecutionFailed == "LibreOffice subprocess execution failed"
JoinTypeError == "sequence item 0: expected str instance, NoneType found"
ExitCodeFailure == "LibreOffice conversion failed (exit code): "
NotSupported == "LibreOffice PDF-to-PPT conversion not supported: "
DependenciesMissing == "Alternative conversion dependencies missing"
RenderFailed == "PDF to image conversion failed"
ValidationFailed == "Generated PPTX file failed validation"
LibreOfficeReports ==
    "PDF to PowerPoint conversion failed. LibreOffice reports: "
AlternativeFailed == ". Alternative method failed: "
NoOutput == "LibreOffice conversion completed but no PPT file was generated. Conversion failed."
PdfNotFound == "PDF file not found"
NoSuchFile == "[Errno 2] No such file or directory"
ConversionFailed == "PDF to PPT conversion failed: "
UnexpectedError == "Unexpected error: "

\* `text in str(e)`, for no message.
Mentions_nothing(msg, texts) == FALSE

\* `text in str(e)`, for some text of texts.
Mentions(msg, texts) == \E i \in DOMAIN msg : msg[i] \in texts

\* What one run of the external tool can come to: it runs past the timeout
\* (subprocess.run kills it and raises TimeoutExpired), it cannot be started,
\* or it exits with a code, a stderr text and the presentation files it left
\* in the output directory.  What a failed run left there is not looked at.
PrimaryOutcomes ==
    { [kind |-> k, returncode |-> 0, stderr |-> "", output |-> <<>>] :
        k \in {"timeout", "oserror"} }
    \cup { [kind |-> "exit", returncode |-> 1, stderr |-> t, output |-> <<>>] :
        t \in UnsupportedSignatures \cup {OtherDiagnostic} }
    \cup { [kind |-> "exit", returncode |-> 0, stderr |-> t, output |-> <<>>] :
        t \in UnsupportedSignatures }
    \cup { [kind |-> "exit", returncode |-> 0, stderr |-> "", output |-> o] :
        o \in {<<>>} \cup { <<a>> : a \in Artifacts } }

\* What the in-process strategy can come to: its packages are missing, the
\* rendering of the pages fails, or it saves a presentation.
AlternativeOutcomes ==
    { [kind |-> k, artifact |-> [size |-> MinPptxBytes, manifest_ok |-> TRUE]] :
        k \in {"import", "render"} }
    \cup { [kind |-> "saved", artifact |-> a] : a \in Artifacts }

\* _run_libreoffice_command (lines 287-296) and _convert_with_libreoffice
\* (lines 224-236): every failure leaves as a RuntimeError, a success returns
\* (here: the files the tool left in the output directory).
convert_with_libreoffice(outcome) ==
    CASE outcome.kind = "timeout" -> Raise(<<TimedOut>>)
      [] outcome.kind = "oserror" -> Raise(<<ExecutionFailed>>)
      [] outcome.kind = "exit" /\ outcome.returncode # 0 ->
            Raise(<<ExitCodeFailure, outcome.stderr>>)
      [] outcome.kind = "exit" /\ outcome.returncode = 0
            /\ outcome.stderr \in UnsupportedSignatures ->
            Raise(<<NotSupported, outcome.stderr>>)
      [] OTHER -> Return(outcome.output)

\* _convert_pdf_to_pptx_alternative: it awaits nothing; what it raises is
\* raised again by line 394.
convert_pdf_to_pptx_alternative(alt) ==
    CASE alt.kind = "import" -> Raise(<<DependenciesMissing>>)
      [] alt.kind = "render" -> Raise(<<RenderFailed>>)
      [] alt.kind = "saved" /\ ~validate_pptx_file(alt.artifact) ->
            Raise(<<ValidationFailed>>)
      [] OTHER -> Return(<<alt.artifact>>)

\* Lines 123-145 with `raise alt_error` in place of line 143: the failure of
\* the alternative strategy leaves alone.
RunStrategies_last_cause(outcome, alt) ==
    LET first == convert_with_libreoffice(outcome)
        second == convert_pdf_to_pptx_alternative(alt)
    IN  IF ~first.raised
          THEN [attempts |-> <<"libreoffice">>, raised |-> FALSE,
                value |-> first.value]
          ELSE IF Mentions(first.value, UnsupportedSignatures)
            THEN [attempts |-> <<"libreoffice", "alternative">>,
                  raised |-> second.raised, value |-> second.value]
            ELSE [attempts |-> <<"libreoffice">>, raised |-> TRUE,
                  value |-> first.value]

\* Lines 123-145 of convert_pdf_to_ppt: the primary strategy and, if its
\* RuntimeError mentions an unsupported conversion, the alternative one.
\* value is the content of the working directory, or the message raised.
RunStrategies(outcome, alt) ==
    LET first == convert_with_libreoffice(outcome)
        second == convert_pdf_to_pptx_alternative(alt)
    IN  IF ~first.raised
          THEN [attempts |-> <<"libreoffice">>, raised |-> FALSE,
                value |-> first.value]
          ELSE IF Mentions(first.value, UnsupportedSignatures)
            THEN IF second.raised
                   THEN [attempts |-> <<"libreoffice", "alternative">>,
                         raised |-> TRUE,
                         value |-> <<LibreOfficeReports>> \o first.value
                                   \o <<AlternativeFailed>> \o second.value]
                   ELSE [attempts |-> <<"libreoffice", "alternative">>,
                         raised |-> FALSE, value |-> second.value]
            ELSE [attempts |-> <<"libreoffice">>, raised |-> TRUE,
                  value |-> first.value]

\* Lines 150-159 without the check of line 152: an empty working directory
\* passes.
CollectOutput_trusting(d, job_id, found) ==
    [raised |-> FALSE, value |-> <<>>, disk |-> d]

\* Lines 147-166: the presentation found in the working directory is moved to
\* its final place, the sizes are read (of the upload too, which may be gone
\* by now), and the working directory is removed.
CollectOutput(d, job_id, found) ==
    IF found = <<>>
      THEN [raised |-> TRUE, value |-> <<NoOutput>>, disk |-> d]
      ELSE LET moved == Put(d, FinalOutput(job_id), <<found[1]>>) IN
           IF UploadPath(job_id) \notin DOMAIN d
             THEN [raised |-> TRUE, value |-> <<NoSuchFile>>, disk |-> moved]
             ELSE [raised |-> FALSE, value |-> <<>>, disk |-> moved]

\* target_time (line 169), in seconds, and the durations line 147 can
\* measure, in whole seconds: one at the target and one above it.
TargetSeconds == 6
Durations == {TargetSeconds, TargetSeconds + 1}

\* is_within_target (line 170)
is_within_target(conversion_time) == conversion_time <= TargetSeconds

\* A success that names the presentation where the tool left it.
Succeeded_in_working_directory(job_id, conversion_time) ==
    [success |-> TRUE, output_file |-> <<JobTempDir(job_id)>>, error |-> <<>>,
     conversion_time_seconds |-> <<conversion_time>>,
     within_performance_target |-> <<is_within_target(conversion_time)>>]

\* The dict convert_pdf_to_ppt returns (lines 178-188 and 202-207); the
\* duration of a failure is not followed.
Succeeded(job_id, conversion_time) ==
    [success |-> TRUE, output_file |-> <<FinalOutput(job_id)>>, error |-> <<>>,
     conversion_time_seconds |-> <<conversion_time>>,
     within_performance_target |-> <<is_within_target(conversion_time)>>]
Failed(msg) ==
    [success |-> FALSE, output_file |-> <<>>,
     error |-> <<ConversionFailed>> \o msg,
     conversion_time_seconds |-> <<>>, within_performance_target |-> <<>>]

\* The frame of a process_conversion_job task: where it is, the strategies
\* convert_pdf_to_ppt has attempted, what the external tool came to, the
\* duration line 147 measured, and the dict convert_pdf_to_ppt is returning.
NewConversion ==
    [pc |-> "pending", attempts |-> <<>>, primary |-> <<>>,
     conversion_time |-> <<>>, result |-> <<>>]

\* A task that is over: "done" if it returned, "raised" if an exception left
\* it.
EndedConversion(how) ==
    [pc |-> how, attempts |-> <<>>, primary |-> <<>>,
     conversion_time |-> <<>>, result |-> <<>>]

\* The entry line 97 makes (the fields this model follows).
NewConversionJob ==
    [status |-> QUEUED, progress |-> 0, error |-> <<>>, output_file |-> <<>>,
     conversion_time |-> <<>>, within_performance_target |-> <<>>]

Requested == DOMAIN conversions

\* ------------------------------------------------------ conversion's routes

\* POST /pdf-to-ppt (conversion.py, convert_pdf_to_ppt): a request that fails
\* the checks of lines 36-60 is refused with 400 or 413 and changes nothing;
\* another one has its upload written, its job registered and its background
\* task added, which starts once the response is sent.
convert_pdf_to_ppt_request(valid) ==
    LET job_id == Len(conversions) + 1 IN
    /\ converting = NoTask
    /\ job_id <= NumConversions
    /\ IF valid
         THEN /\ disk' = Put(disk, UploadPath(job_id), <<>>)
              /\ conversion_jobs' =
                    [i \in (DOMAIN conversion_jobs) \cup {job_id} |->
                        IF i = job_id THEN NewConversionJob
                                      ELSE conversion_jobs[i]]
              /\ conversions' = Append(conversions, NewConversion)
         ELSE UNCHANGED <<disk, conversion_jobs, conversions>>
    /\ UNCHANGED <<conversion_semaphore, converting, libreoffice_path>>
    /\ UNCHANGED processor
    /\ UNCHANGED governor

\* GET /status/{job_id}
get_conversion_status(table, job_id) ==
    IF job_id \notin DOMAIN table
      THEN [status_code |-> 404, detail |-> "Job not found"]
      ELSE [status_code |-> 200, detail |-> table[job_id].status]

\* GET /download/{job_id}
download_converted_file(table, d, job_id) ==
    IF job_id \notin DOMAIN table
      THEN [status_code |-> 404, detail |-> "Job not found"]
      ELSE IF table[job_id].status # COMPLETED
        THEN [status_code |-> 400, detail |-> "Job not completed"]
        ELSE IF \/ table[job_id].output_file = <<>>
                \/ table[job_id].output_file[1] \notin DOMAIN d
          THEN [status_code |-> 404, detail |-> "Converted file not found"]
          ELSE [status_code |-> 200, detail |-> "file"]

\* The status code DELETE /job/{job_id} answers with.
CleanupStatusCode(table, job_id) ==
    IF job_id \notin DOMAIN table THEN 404 ELSE 200

\* DELETE /job/{job_id}: for a job in the table, its upload and its output
\* file are removed if they exist and the entry is deleted; for any other id
\* nothing changes.
cleanup_conversion_job(job_id) ==
    /\ converting = NoTask
    /\ IF CleanupStatusCode(conversion_jobs, job_id) = 404
         THEN UNCHANGED <<disk, conversion_jobs>>
         ELSE LET job == conversion_jobs[job_id]
                  no_input == Remove(disk, UploadPath(job_id))
              IN /\ disk' = IF job.output_file # <<>>
                              THEN Remove(no_input, job.output_file[1])
                              ELSE no_input
                 /\ conversion_jobs' =
                        [i \in (DOMAIN conversion_jobs) \ {job_id} |->
                            conversion_jobs[i]]
    /\ UNCHANGED <<conversions, conversion_semaphore, converting,
                   libreoffice_path>>
    /\ UNCHANGED processor
    /\ UNCHANGED governor

\* ------------------------------------------------------- the conversion task

\* The slot is taken without a wait.
ConversionGateLocked_never(value) == FALSE

\* asyncio.Semaphore.locked()
ConversionGateLocked(value) == value = 0

\* convert_pdf_to_ppt from the slot on (lines 100-129), up to the await of
\* the executor inside _run_libreoffice_command: the input is validated and
\* staged.  Without an executable, the join of line 248 raises a TypeError,
\* as does line 295 in the handler of it, and the conversion fails at once.
EnterConversion(j) ==
    /\ conversion_semaphore' = conversion_semaphore - 1
    /\ IF UploadPath(j) \notin DOMAIN disk
         THEN /\ conversions' = [conversions EXCEPT
                    ![j].pc = "return",
                    ![j].result = << Failed(<<PdfNotFound>>) >>]
              /\ converting' = j
              /\ UNCHANGED disk
         ELSE IF libreoffice_path = NONE
           THEN /\ conversions' = [conversions EXCEPT
                    ![j].pc = "return",
                    ![j].result = << Failed(<<JoinTypeError>>) >>]
                /\ converting' = j
                /\ UNCHANGED disk
           ELSE /\ conversions' = [conversions EXCEPT
                    ![j].pc = "primary",
                    ![j].attempts = <<"libreoffice">>]
                /\ converting' = NoTask
                /\ disk' = Put(disk, JobTempDir(j), <<>>)

\* The except clause of process_conversion_job for a job whose entry is gone:
\* line 312 raises the KeyError again; the finally clause removes the upload.
LeaveWithKeyError(j) ==
    /\ conversions' = [conversions EXCEPT ![j] = EndedConversion("raised")]
    /\ disk' = Remove(disk, UploadPath(j))
    /\ converting' = NoTask

\* process_conversion_job, lines 276-285: the job is marked processing, then
\* convert_pdf_to_ppt is called and asks for a slot.
process_conversion_job_begin(j) ==
    /\ converting = NoTask
    /\ conversions[j].pc = "pending"
    /\ IF j \notin DOMAIN conversion_jobs
         THEN /\ LeaveWithKeyError(j)
              /\ UNCHANGED <<conversion_jobs, conversion_semaphore>>
         ELSE /\ conversion_jobs' = [conversion_jobs EXCEPT
                    ![j].status = PROCESSING, ![j].progress = 10]
              /\ IF ConversionGateLocked(conversion_semaphore)
                   THEN /\ conversions' = [conversions EXCEPT ![j].pc = "wait"]
                        /\ UNCHANGED <<conversion_semaphore, converting, disk>>
                   ELSE EnterConversion(j)
    /\ UNCHANGED libreoffice_path
    /\ UNCHANGED processor
    /\ UNCHANGED governor

\* A task that waited at line 100 gets a slot.
convert_pdf_to_ppt_acquire(j) ==
    /\ converting = NoTask
    /\ conversions[j].pc = "wait"
    /\ ~ConversionGateLocked(conversion_semaphore)
    /\ EnterConversion(j)
    /\ UNCHANGED <<conversion_jobs, libreoffice_path>>
    /\ UNCHANGED processor
    /\ UNCHANGED governor

\* The executor hands the outcome of the external tool back; lines 123-176
\* and the except clause of lines 190-207 run up to the next await (the
\* version query of line 187) or to the return of the failure.
\* conversion_time is what line 147 measures.
run_libreoffice_command_returns(j, outcome, alt, conversion_time) ==
    /\ converting = NoTask
    /\ conversions[j].pc = "primary"
    /\ LET tried == RunStrategies(outcome, alt)
           collected == CollectOutput(disk, j, tried.value)
       IN IF tried.raised
            THEN /\ conversions' = [conversions EXCEPT
                        ![j].pc = "return",
                        ![j].attempts = tried.attempts,
                        ![j].primary = <<outcome>>,
                        ![j].result = << Failed(tried.value) >>]
                 /\ disk' = Remove(disk, JobTempDir(j))
                 /\ converting' = j
            ELSE /\ disk' = Remove(collected.disk, JobTempDir(j))
                 /\ IF collected.raised
                      THEN /\ conversions' = [conversions EXCEPT
                                ![j].pc = "return",
                                ![j].attempts = tried.attempts,
                                ![j].primary = <<outcome>>,
                                ![j].result = << Failed(collected.value) >>]
                           /\ converting' = j
                      ELSE /\ conversions' = [conversions EXCEPT
                                ![j].pc = "version",
                                ![j].attempts = tried.attempts,
                                ![j].primary = <<outcome>>,
                                ![j].conversion_time = <<conversion_time>>]
                           /\ converting' = NoTask
    /\ UNCHANGED <<conversion_jobs, conversion_semaphore, libreoffice_path>>
    /\ UNCHANGED processor
    /\ UNCHANGED governor

\* _get_libreoffice_version returns (whatever the tool did, lines 300-306
\* turn it into a string), and the dict of lines 178-188 is complete.
get_libreoffice_version_returns(j) ==
    /\ converting = NoTask
    /\ conversions[j].pc = "version"
    /\ conversions' = [conversions EXCEPT
            ![j].pc = "return",
            ![j].result = << Succeeded(j, conversions[j].conversion_time[1]) >>]
    /\ converting' = j
    /\ UNCHANGED <<conversion_jobs, conversion_semaphore, disk,
                   libreoffice_path>>
    /\ UNCHANGED processor
    /\ UNCHANGED governor

\* The slot is kept on the way out.
ConversionGateKept(value) == value

\* `async with` is left: asyncio.Semaphore.release()
ConversionGateRelease(value) == value + 1

\* convert_pdf_to_ppt returns through `async with` and lines 287-306 record
\* the outcome in the job's entry.
process_conversion_job_result(j) ==
    /\ converting = j
    /\ conversions[j].pc = "return"
    /\ conversion_semaphore' = ConversionGateRelease(conversion_semaphore)
    /\ IF j \notin DOMAIN conversion_jobs
         THEN /\ LeaveWithKeyError(j)
              /\ UNCHANGED conversion_jobs
         ELSE /\ LET result == conversions[j].result[1] IN
                 conversion_jobs' = [conversion_jobs EXCEPT ![j] =
                    IF result.success
                      THEN [@ EXCEPT !.status = COMPLETED,
                                     !.progress = 100,
                                     !.output_file = result.output_file,
                                     !.conversion_time =
                                        result.conversion_time_seconds,
                                     !.within_performance_target =
                                        result.within_performance_target]
                      ELSE [@ EXCEPT !.status = FAILED,
                                     !.error = result.error]]
              /\ conversions' = [conversions EXCEPT ![j].pc = "print"]
              /\ UNCHANGED <<converting, disk>>
    /\ UNCHANGED libreoffice_path
    /\ UNCHANGED processor
    /\ UNCHANGED governor

\* Lines 298 and 308 print, inside the try block; a print that raises (the
\* messages start with an emoji) is caught by lines 310-317, which record an
\* unexpected error and print again, outside any try block.  The finally
\* clause removes the upload.
process_conversion_job_print(j) ==
    /\ converting = j
    /\ conversions[j].pc = "print"
    /\ \E printed \in BOOLEAN, printed_again \in BOOLEAN :
        IF printed
          THEN /\ conversions' = [conversions EXCEPT
                    ![j] = EndedConversion("done")]
               /\ UNCHANGED conversion_jobs
          ELSE /\ conversion_jobs' = [conversion_jobs EXCEPT
                    ![j].status = FAILED,
                    ![j].error = <<UnexpectedError, PrintError>>]
               /\ conversions' = [conversions EXCEPT ![j] =
                    EndedConversion(IF printed_again THEN "done"
                                                     ELSE "raised")]
    /\ disk' = Remove(disk, UploadPath(j))
    /\ converting' = NoTask
    /\ UNCHANGED <<conversion_semaphore, libreoffice_path>>
    /\ UNCHANGED processor
    /\ UNCHANGED governor

NextConv ==
    \/ \E valid \in BOOLEAN : convert_pdf_to_ppt_request(valid)
    \/ \E job_id \in ConversionIds : cleanup_conversion_job(job_id)
    \/ \E j \in Requested : process_conversion_job_begin(j)
    \/ \E j \in Requested : convert_pdf_to_ppt_acquire(j)
    \/ \E j \in Requested, outcome \in PrimaryOutcomes,
          alt \in AlternativeOutcomes, conversion_time \in Durations :
            run_libreoffice_command_returns(j, outcome, alt, conversion_time)
    \/ \E j \in Requested : get_libreoffice_version_returns(j)
    \/ \E j \in Requested : process_conversion_job_result(j)
    \/ \E j \in Requested : process_conversion_job_print(j)

\* The conversion pipeline alone, from the import of its modules on; the
\* executable was found by _find_libreoffice or it was not.
InitConv ==
    /\ jobs = <<>>
    /\ metrics = <<>>
    /\ tasks = <<>>
    /\ processing_semaphore = max_concurrent_jobs
    /\ running = NoTask
    /\ engine_available = EmptyDict
    /\ api_keys = EmptyDict
    /\ rate_limits = EmptyDict
    /\ security_events = <<>>
    /\ clock = 0
    /\ requests = <<>>
    /\ serving = NoRequest
    /\ response = NoResponse
    /\ conversion_jobs = EmptyDict
    /\ conversions = <<>>
    /\ conversion_semaphore = max_concurrent_conversions
    /\ converting = NoTask
    /\ disk = EmptyDict
    /\ libreoffice_path \in {SOFFICE, NONE}

SpecConv == InitConv /\ [][NextConv]_vars

\* One step of the task of conversion j.
ConversionStep(j) ==
    /\ j \in Requested
    /\ \/ process_conversion_job_begin(j)
       \/ convert_pdf_to_ppt_acquire(j)
       \/ \E outcome \in PrimaryOutcomes, alt \in AlternativeOutcomes,
             conversion_time \in Durations :
                run_libreoffice_command_returns(j, outcome, alt,
                                                conversion_time)
       \/ get_libreoffice_version_returns(j)
       \/ process_conversion_job_result(j)
       \/ process_conversion_job_print(j)

\* The event loop runs every background task that is ready, and every run of
\* the external tool ends, by itself or by the timeout of line 224.
SpecConvFair == SpecConv /\ \A j \in ConversionIds : WF_vars(ConversionStep(j))

TypeOKConv ==
    /\ DOMAIN conversion_jobs \subseteq Requested
    /\ Len(conversions) <= NumConversions
    /\ conversion_semaphore \in 0 .. max_concurrent_conversions
    /\ converting \in Requested \cup {NoTask}
    /\ \A j \in DOMAIN conversion_jobs :
        /\ conversion_jobs[j].status \in {QUEUED, PROCESSING, COMPLETED, FAILED}
        /\ conversion_jobs[j].progress \in {0, 10, 100}

\* ------------------------------------------ the processing service's routes

\* GET /api/processing/status/{job_id} (processing.py, get_job_status) on
\* self.jobs.get(job_id)
get_job_status(table, job_id) ==
    IF job_id \notin DOMAIN table
      THEN [status_code |-> 404, detail |-> "Job not found"]
      ELSE [status_code |-> 200, detail |-> table[job_id].status]

\* GET /api/processing/download/{job_id}, for every status.
download_result_any_status(table, job_id, exists) ==
    IF job_id \notin DOMAIN table
      THEN [status_code |-> 404, detail |-> "Job not found"]
      ELSE IF table[job_id].result = <<>>
          THEN [status_code |-> 500,
                detail |-> "Processing result not available"]
          ELSE IF ~exists
            THEN [status_code |-> 500, detail |-> "Output file not found"]
            ELSE [status_code |-> 200, detail |-> "file"]

\* GET /api/processing/download/{job_id}; `exists` tells whether the output
\* file is where the result says.
download_result(table, job_id, exists) ==
    IF job_id \notin DOMAIN table
      THEN [status_code |-> 404, detail |-> "Job not found"]
      ELSE IF table[job_id].status # COMPLETED
        THEN [status_code |-> 400, detail |-> "Job not completed"]
        ELSE IF table[job_id].result = <<>>
          THEN [status_code |-> 500,
                detail |-> "Processing result not available"]
          ELSE IF ~exists
            THEN [status_code |-> 500, detail |-> "Output file not found"]
            ELSE [status_code |-> 200, detail |-> "file"]

\* GET /api/processing/result/{job_id}
get_job_result(table, job_id) ==
    IF job_id \notin DOMAIN table
      THEN [status_code |-> 404, detail |-> "Job not found"]
      ELSE IF table[job_id].status # COMPLETED
        THEN [status_code |-> 400, detail |-> "Job not completed"]
        ELSE [status_code |-> 200, detail |-> "result"]

\* ------------------------------------------------ the job-creating routes

\* POST /api/processing/upload (processing.py, upload_and_process) called by
\* the holder of `key` with a file that passes lines 44-57 and the defaults
\* of the form: the route has no dependency that asks who calls, and goes
\* straight to create_job.
upload_and_process(key) ==
    /\ serving = NoRequest
    /\ create_job("optimize", FALSE)

\* POST /api/conversion/pdf-to-ppt called by the holder of `key`: no
\* dependency that asks who calls either.
convert_pdf_to_ppt_request_by(key, valid) ==
    /\ serving = NoRequest
    /\ convert_pdf_to_ppt_request(valid)

NextApi ==
    \/ NextRate
    \/ \E key \in DOMAIN api_keys : upload_and_process(key)
    \/ \E key \in DOMAIN api_keys, valid \in BOOLEAN :
            convert_pdf_to_ppt_request_by(key, valid)

\* The governor and the routes that create jobs, on one event loop; the tasks
\* of the jobs are left where their creation put them.
SpecApi == InitRate /\ [][NextApi]_vars

\* ------------------------------------------------------------ vocabulary

Terminal == {COMPLETED, FAILED}

\* The task of job j is inside `async with self.processing_semaphore`.
InsideGate(j) == tasks[j].pc \notin {"queued", "done", "raised"}

\* No coroutine is running: the states other tasks and requests can see.
BetweenSchedulerSteps == running = NoTask

\* The last value the handler of a live task wrote to its job's progress.
LastWritten(j) ==
    IF tasks[j].n = 0 THEN 0 ELSE Steps(tasks[j].handler)[tasks[j].n]

\* The exceptions engine selection and the operation handlers raise.
EngineOrHandlerErrors == {NoEngineError, AttributeError, MuPDFError}

\* ------------------------------------------------------------------ claims

\* C1: along every execution each job's status moves only QUEUED ->
\* PROCESSING -> COMPLETED or FAILED: every change of a job's status is one of
\* these three moves, so no job skips PROCESSING and none returns to QUEUED.
C1_StatusMovesAlongChain ==
    [][ \A j \in Created :
            jobs'[j].status # jobs[j].status =>
                <<jobs[j].status, jobs'[j].status>> \in
                    { <<QUEUED, PROCESSING>>,
                      <<PROCESSING, COMPLETED>>,
                      <<PROCESSING, FAILED>> } ]_vars

\* C2: once a job's status is COMPLETED or FAILED no later step changes its
\* status, progress, result, error or completed_at, whatever the steps of
\* _process_job that follow the terminal write do.
C2_TerminalRecordIsFinal ==
    [][ \A j \in Created :
            jobs[j].status \in Terminal =>
                /\ jobs'[j].status = jobs[j].status
                /\ jobs'[j].progress = jobs[j].progress
                /\ jobs'[j].result = jobs[j].result
                /\ jobs'[j].error = jobs[j].error
                /\ jobs'[j].completed_at = jobs[j].completed_at ]_vars

\* C3: in every state observable between scheduler steps a job has progress
\* 100 if and only if its status is COMPLETED.
C3_FullProgressIffCompleted ==
    BetweenSchedulerSteps =>
        \A j \in Created :
            jobs[j].progress = 100 <=> jobs[j].status = COMPLETED

\* C4: a COMPLETED job has progress 100, completed_at set and a result
\* attached, whichever handler and engine ran it.
C4_CompletedIsFull ==
    \A j \in Created :
        jobs[j].status = COMPLETED =>
            /\ jobs[j].progress = 100
            /\ jobs[j].completed_at
            /\ Len(jobs[j].result) = 1

\* C4 witness: a job completed by the fallback compression on PDFium.
C4_Witness ==
    \E j \in Created :
        /\ jobs[j].status = COMPLETED
        /\ Len(jobs[j].result) = 1
        /\ jobs[j].result[1].operation_performed = "compress"
        /\ jobs[j].result[1].engine_used = PDFIUM

\* C5: never more than max_concurrent_jobs jobs are PROCESSING at once,
\* however many are submitted and however their tasks interleave.
C5_ProcessingBounded ==
    Cardinality({j \in Created : jobs[j].status = PROCESSING})
        <= max_concurrent_jobs

\* C5 witness: more jobs submitted than slots, every slot in use by a
\* suspended PROCESSING job, another job waiting at the gate.
C5_Witness ==
    /\ Cardinality(Created) > max_concurrent_jobs
    /\ BetweenSchedulerSteps
    /\ Cardinality({j \in Created : jobs[j].status = PROCESSING})
            = max_concurrent_jobs
    /\ \E j \in Created : tasks[j].pc = "queued"

\* C6: create_job records the job as QUEUED with progress 0 and returns
\* without waiting: it can run whenever the loop is free and jobs remain to
\* submit, also with every slot held; and a job whose task has not passed the
\* gate is still exactly as create_job recorded it.
C6_SubmitDoesNotWait ==
    /\ (BetweenSchedulerSteps /\ Cardinality(Created) < NumJobs) =>
            ENABLED (\E operation \in Operations, compliance \in BOOLEAN :
                        create_job(operation, compliance))
    /\ \A j \in Created :
            tasks[j].pc = "queued" =>
                /\ jobs[j].status = QUEUED
                /\ jobs[j].progress = 0
                /\ ~jobs[j].started_at
                /\ metrics[j].engine_used = NONE

\* C6 witness: a job was accepted while every slot was held, and waits.
C6_Witness ==
    /\ processing_semaphore = 0
    /\ BetweenSchedulerSteps
    /\ \E j \in Created :
            /\ tasks[j].pc = "queued"
            /\ jobs[j].status = QUEUED
            /\ \A k \in Created : k < j => InsideGate(k)

\* C7: every exit of _process_job gives its slot back: the slots held are
\* exactly those of the tasks inside the gate, and once every submitted job
\* is terminal and no task is running, all slots are free.
C7_SlotsReleased ==
    /\ max_concurrent_jobs - processing_semaphore
            = Cardinality({j \in Created : InsideGate(j)})
    /\ ( /\ BetweenSchedulerSteps
         /\ \A j \in Created : jobs[j].status \in Terminal )
            => processing_semaphore = max_concurrent_jobs

\* C7 witness: all jobs submitted and over, one by a return and one by an
\* exception that left the task, and every slot is free again.
C7_Witness ==
    /\ Cardinality(Created) = NumJobs
    /\ \A j \in Created : jobs[j].status \in Terminal
    /\ \E j \in Created : tasks[j].pc = "raised"
    /\ \E j \in Created : tasks[j].pc = "done" /\ jobs[j].status = COMPLETED
    /\ processing_semaphore = max_concurrent_jobs

\* C8: an exception of engine selection or of a handler makes the job FAILED
\* with that message as error and completed_at set, leaves progress where the
\* handler left it, and does not leave the job's task.
C8_FailureContained ==
    \A j \in Created :
        /\ ( tasks[j].pc = "print" /\ tasks[j].exc \in EngineOrHandlerErrors )
            => /\ jobs[j].status = FAILED
               /\ jobs[j].error = tasks[j].exc
               /\ jobs[j].completed_at
               /\ jobs[j].progress = LastWritten(j)
        /\ jobs[j].error \in EngineOrHandlerErrors => tasks[j].pc # "raised"

\* C9: while a job is PROCESSING every write to its progress is an integer
\* of 0..100 not below the value it replaces.
C9_ProgressNonDecreasing ==
    [][ \A j \in Created :
            jobs[j].status = PROCESSING =>
                /\ jobs'[j].progress \in 0 .. 100
                /\ jobs'[j].progress >= jobs[j].progress ]_vars

\* C9 witness: a PROCESSING job past its third progress write.
C9_Witness ==
    \E j \in Created :
        /\ jobs[j].status = PROCESSING
        /\ tasks[j].n >= 3
        /\ jobs[j].progress = LastWritten(j)
        /\ jobs[j].progress < 100

\* The engine the selection policy names for a job, "fail" when none.
PolicyChoice(compliance, mupdf, pdfium) ==
    IF compliance /\ pdfium THEN PDFIUM
    ELSE IF mupdf THEN MUPDF
    ELSE IF pdfium THEN PDFIUM
    ELSE "fail"

\* C10: for every combination of require_enterprise_compliance,
\* mupdf_available and pdfium_available, a job that has passed engine
\* selection was given PDFIUM if compliance is required and PDFIUM is
\* available, else MUPDF if available, else PDFIUM if available, and failed
\* with the no-engine error otherwise.
C10_SelectionPolicy ==
    \A j \in Created :
        ( /\ tasks[j].pc \notin {"queued", "select"}
          /\ HasAttr(MUPDF) /\ HasAttr(PDFIUM) ) =>
            LET choice == PolicyChoice(jobs[j].require_enterprise_compliance,
                                       engine_available[MUPDF],
                                       engine_available[PDFIUM])
            IN IF choice = "fail"
                 THEN /\ metrics[j].engine_used = NONE
                      /\ \/ tasks[j].exc = NoEngineError
                         \/ jobs[j].error = NoEngineError
                 ELSE metrics[j].engine_used = choice

\* C10 witness: a compliance job given PDFIUM although MUPDF is available.
C10_Witness ==
    \E j \in Created :
        /\ HasAttr(MUPDF) /\ HasAttr(PDFIUM)
        /\ engine_available[MUPDF]
        /\ jobs[j].require_enterprise_compliance
        /\ metrics[j].engine_used = PDFIUM

\* Both engine attributes are set and both are False.
NoEngine ==
    /\ HasAttr(MUPDF) /\ HasAttr(PDFIUM)
    /\ ~engine_available[MUPDF]
    /\ ~engine_available[PDFIUM]

\* The operations _process_job names in its dispatch.
NamedOperations == {"merge", "split", "compress", "convert"}

\* C11: a job submitted with require_enterprise_compliance is never given the
\* MUPDF engine; when PDFIUM is unavailable its engine selection fails with
\* the no-engine error and the job ends FAILED.
C11_ComplianceNeverOnMupdf ==
    \A j \in Created :
        jobs[j].require_enterprise_compliance =>
            /\ metrics[j].engine_used # MUPDF
            /\ ( /\ HasAttr(MUPDF) /\ HasAttr(PDFIUM)
                 /\ ~engine_available[PDFIUM]
                 /\ tasks[j].pc \in Finished )
                => /\ jobs[j].status = FAILED
                   /\ jobs[j].error = NoEngineError

\* C12: with no engine available a job goes PROCESSING -> FAILED with the
\* no-engine error, no handler entered and no progress written; its slot is
\* free again once its task is over, and later jobs are still accepted and
\* let through the gate.
C12_NoEngineFailsCleanly ==
    NoEngine =>
        /\ \A j \in Created :
            /\ tasks[j].handler = NONE
            /\ tasks[j].n = 0
            /\ jobs[j].progress = 0
            /\ metrics[j].engine_used = NONE
            /\ jobs[j].result = <<>>
            /\ tasks[j].pc = "except" =>
                    /\ jobs[j].status = PROCESSING
                    /\ tasks[j].exc = NoEngineError
            /\ tasks[j].pc \in {"print", "done", "raised"} =>
                    /\ jobs[j].status = FAILED
                    /\ jobs[j].error = NoEngineError
        /\ BetweenSchedulerSteps =>
            /\ processing_semaphore = max_concurrent_jobs
            /\ Cardinality(Created) < NumJobs =>
                    ENABLED (\E operation \in Operations,
                                compliance \in BOOLEAN :
                                    create_job(operation, compliance))
            /\ \A k \in Created :
                    tasks[k].pc = "queued" => ENABLED process_job_begin(k)

\* C12 witness: no engine; one job has failed and its task is over, and a
\* later job has been let through the gate and failed the same way.
C12_Witness ==
    /\ NoEngine
    /\ Cardinality(Created) >= 2
    /\ tasks[1].pc \in Finished
    /\ jobs[1].error = NoEngineError
    /\ tasks[2].pc \in Finished
    /\ jobs[2].status = FAILED
    /\ processing_semaphore = max_concurrent_jobs

\* C13: a job whose operation is none of merge, split, compress, convert is
\* dispatched to the optimize handler and, its engine selected and its handler
\* having raised nothing, ends COMPLETED with operation_performed "optimize".
C13_UnknownOperationCompletes ==
    \A j \in Created :
        ( /\ jobs[j].operation \notin NamedOperations
          /\ metrics[j].engine_used # NONE ) =>
            /\ tasks[j].pc \in {"sleep", "write"} =>
                    tasks[j].handler = "optimize"
            /\ tasks[j].pc \in Finished =>
                    /\ jobs[j].status = COMPLETED
                    /\ Len(jobs[j].result) = 1
                    /\ jobs[j].result[1].operation_performed = "optimize"

\* ------------------------------------------------- governor's vocabulary

\* The hour the clock is in.
CurrentHour == clock \div TicksPerHour

\* The buckets the table holds for an identifier.
Buckets(table, identifier) ==
    IF identifier \in DOMAIN table THEN table[identifier] ELSE EmptyDict

\* The count the table holds for an identifier and an hour, 0 if none.
CountOf(table, identifier, hour) ==
    IF hour \in DOMAIN Buckets(table, identifier)
        THEN Buckets(table, identifier)[hour].count ELSE 0

\* What check_rate_limit would report for a key now.
ReportNow(key) ==
    check_rate_limit(rate_limits, clock, Identifier(key), api_keys[key]).info

\* The hour in which request r, still in its handler, called
\* check_rate_limit.
HourChecked(r) == requests[r].rate_limit[1].reset_time \div TicksPerHour - 1

\* A step in which a request calls check_rate_limit.
CheckStep == Len(requests') = Len(requests) + 1

\* A step in which request r leaves its handler after check_rate_limit
\* reported that some request remains, or that none does.
AdmitStep(r) ==
    /\ requests[r].pc = "checked" /\ requests'[r].pc = "done"
    /\ requests[r].rate_limit[1].requests_remaining > 0

RefuseStep(r) ==
    /\ requests[r].pc = "checked" /\ requests'[r].pc = "done"
    /\ requests[r].rate_limit[1].requests_remaining = 0

\* A table whose only bucket is the given hour of one identifier.
OneBucket(identifier, hour, count) ==
    identifier :> (hour :> [count |-> count,
                            reset_time |-> (hour + 1) * TicksPerHour])

\* -------------------------------------------------------- governor's claims

\* C14: check_rate_limit is read-only: a call leaves rate_limits (its key set
\* included) and every other piece of the service's state unchanged, for an
\* identifier seen before or not and also when it reports remaining 0.
C14_CheckIsReadOnly ==
    [][ CheckStep =>
            /\ rate_limits' = rate_limits
            /\ security_events' = security_events
            /\ api_keys' = api_keys ]_vars

\* C15: however the requests that share an identifier interleave their
\* check_rate_limit and consume_rate_limit, the requests admitted (counted)
\* within one hour bucket never exceed the key's limit.
C15_AdmittedWithinLimit ==
    \A key \in DOMAIN api_keys :
        \A hour \in 0 .. NumHours - 1 :
            CountOf(rate_limits, Identifier(key), hour) <= api_keys[key]

\* C15 witness: a key's limit of one or more is used up within an hour and a
\* further request with the same key, checked in that hour, finds nothing
\* left.
C15_Witness ==
    \E r \in DOMAIN requests :
        /\ requests[r].pc = "checked"
        /\ api_keys[requests[r].key] >= 1
        /\ requests[r].rate_limit[1].requests_remaining = 0
        /\ CountOf(rate_limits, Identifier(requests[r].key), HourChecked(r))
                = api_keys[requests[r].key]

\* C16: once exactly `limit` calls of consume_rate_limit were made for an
\* identifier within an hour bucket, check_rate_limit at any instant of that
\* bucket reports remaining 0 and a retry_after above 0.
C16_ExhaustedReportsPositiveRetry ==
    \A key \in DOMAIN api_keys :
        CountOf(rate_limits, Identifier(key), CurrentHour) = api_keys[key] =>
            /\ ReportNow(key).requests_remaining = 0
            /\ ReportNow(key).retry_after # <<>>
            /\ ReportNow(key).retry_after[1] > 0

Counts == 0 .. MaxLimit + 1

C19_ConsumeCountsOne ==
    [][ \A r \in DOMAIN requests :
            AdmitStep(r) =>
                LET id == Identifier(requests[r].key) IN
                /\ DOMAIN rate_limits' = DOMAIN rate_limits \cup {id}
                /\ DOMAIN rate_limits'[id]
                     = DOMAIN Buckets(rate_limits, id) \cup {CurrentHour}
                /\ rate_limits'[id][CurrentHour].count
                     = CountOf(rate_limits, id, CurrentHour) + 1
                /\ rate_limits'[id][CurrentHour].reset_time
                     = (CurrentHour + 1) * TicksPerHour
                /\ \A other \in DOMAIN rate_limits \ {id} :
                        rate_limits'[other] = rate_limits[other]
                /\ \A hour \in DOMAIN Buckets(rate_limits, id) \ {CurrentHour} :
                        rate_limits'[id][hour] = rate_limits[id][hour] ]_vars

\* C19 witness: an identifier with buckets of two hours and another
\* identifier with a bucket of its own.
C19_Witness ==
    \E id, other \in DOMAIN rate_limits :
        /\ id # other
        /\ Cardinality(DOMAIN rate_limits[id]) >= 2
        /\ DOMAIN rate_limits[other] # {}

\* C20: when check_rate_limit reports remaining 0 the dependency denies the
\* request with 429 and without consuming (the table is left as it was), and
\* its Retry-After is the retry_after that check reported.
C20_DenialCarriesRetryAfter ==
    [][ \A r \in DOMAIN requests :
            RefuseStep(r) =>
                /\ response'.status_code = 429
                /\ rate_limits' = rate_limits
                /\ response'.retry_after_header
                     = requests[r].rate_limit[1].retry_after ]_vars

\* ------------------------------------------------------- the routes' claims

\* Requests of `key` were admitted this hour and have used its limit up.
Exhausted(key) ==
    /\ CountOf(rate_limits, Identifier(key), CurrentHour) > 0
    /\ CountOf(rate_limits, Identifier(key), CurrentHour) >= api_keys[key]

\* C21: a request from a caller whose identifier has exhausted its limit in
\* the current hour bucket creates no job record: a step of upload_and_process
\* or of the conversion route made by the holder of an exhausted key leaves
\* the jobs of PDFProcessorService and the conversion jobs as they were.
C21_ExhaustedCallerCreatesNoJob ==
    [][ \A key \in DOMAIN api_keys :
            ( /\ Exhausted(key)
              /\ \/ upload_and_process(key)
                 \/ \E valid \in BOOLEAN :
                        convert_pdf_to_ppt_request_by(key, valid) )
                => /\ jobs' = jobs
                   /\ conversion_jobs' = conversion_jobs ]_vars

\* --------------------------------------------------- conversion's vocabulary

\* The task of conversion j is inside `async with self.conversion_semaphore`.
InsideConversionGate(j) == conversions[j].pc \in {"primary", "version", "return"}

\* An external process of conversion j exists (the executor runs it).
ExternalProcess(j) == conversions[j].pc \in {"primary", "version"}

Waiting == {j \in Requested : conversions[j].pc = "wait"}

ConversionOver(j) == conversions[j].pc \in {"done", "raised"}

\* No conversion task is running: what requests and other tasks can see.
LoopIsFree == converting = NoTask

\* The frames in which the outcome of the external tool is known.
Attempted == {j \in Requested : conversions[j].primary # <<>>}

\* ------------------------------------------------------ conversion's claims

\* C22: at most max_concurrent_conversions executions of convert_pdf_to_ppt,
\* and so at most that many external processes, are in progress at any
\* instant, whatever the number of conversion requests; and a conversion that
\* waits for a slot blocks nothing else: with the loop free, the executions in
\* progress can go on, the clean-up route answers and a further request is
\* accepted.
C22_ConversionsBounded ==
    /\ Cardinality({j \in Requested : InsideConversionGate(j)})
            <= max_concurrent_conversions
    /\ Cardinality({j \in Requested : ExternalProcess(j)})
            <= max_concurrent_conversions
    /\ (LoopIsFree /\ Waiting # {}) =>
        /\ \A j \in Requested :
            /\ conversions[j].pc = "primary" =>
                ENABLED (\E outcome \in PrimaryOutcomes,
                            alt \in AlternativeOutcomes,
                            conversion_time \in Durations :
                            run_libreoffice_command_returns(j, outcome, alt,
                                                            conversion_time))
            /\ conversions[j].pc = "version" =>
                ENABLED get_libreoffice_version_returns(j)
        /\ \A job_id \in ConversionIds : ENABLED cleanup_conversion_job(job_id)
        /\ Len(conversions) < NumConversions =>
                ENABLED convert_pdf_to_ppt_request(TRUE)

\* C22 witness: more conversions requested than slots, every slot held by a
\* conversion whose external process runs, another conversion waiting.
C22_Witness ==
    /\ LoopIsFree
    /\ Cardinality(Requested) > max_concurrent_conversions
    /\ Cardinality({j \in Requested : conversions[j].pc = "primary"})
            = max_concurrent_conversions
    /\ conversion_semaphore = 0
    /\ Waiting # {}

\* C23: every exit of convert_pdf_to_ppt gives its slot back: the slots held
\* are exactly those of the executions in progress, and once every requested
\* conversion is over, all slots are free.
C23_ConversionSlotsReleased ==
    /\ max_concurrent_conversions - conversion_semaphore
            = Cardinality({j \in Requested : InsideConversionGate(j)})
    /\ (\A j \in Requested : ConversionOver(j))
            => conversion_semaphore = max_concurrent_conversions

\* C23 witness: every conversion that can be requested is over, one after a
\* timeout and one with success, and every slot is free.
C23_Witness ==
    /\ Cardinality(Requested) = NumConversions
    /\ \A j \in Requested : ConversionOver(j)
    /\ \E j \in DOMAIN conversion_jobs :
            /\ conversion_jobs[j].status = FAILED
            /\ Mentions(conversion_jobs[j].error, {TimedOut})
    /\ \E j \in DOMAIN conversion_jobs : conversion_jobs[j].status = COMPLETED
    /\ conversion_semaphore = max_concurrent_conversions

\* The external tool of conversion j has just run past the timeout.
TimeoutStep(j) ==
    /\ conversions[j].pc = "primary"
    /\ conversions'[j].primary # <<>>
    /\ conversions'[j].primary[1].kind = "timeout"

\* The task of conversion j, whose tool timed out, comes to its end.
TimedOutEnds(j) ==
    /\ conversions[j].pc = "print"
    /\ conversions[j].primary # <<>>
    /\ conversions[j].primary[1].kind = "timeout"
    /\ ConversionOver(j)'

\* C24: when the external tool runs past the timeout, its process is gone,
\* convert_pdf_to_ppt returns a failure with the timed-out error and the
\* alternative strategy is not attempted; the job ends FAILED with that
\* error; and the slot is released, so that with a slot free and the loop
\* free a waiting conversion can be admitted.
C24_TimeoutFailsAndFreesSlot ==
    /\ [][ \A j \in Requested :
            /\ TimeoutStep(j) =>
                /\ ~ExternalProcess(j)'
                /\ conversions'[j].attempts = <<"libreoffice">>
                /\ ~conversions'[j].result[1].success
                /\ Mentions(conversions'[j].result[1].error, {TimedOut})
            /\ TimedOutEnds(j) =>
                /\ conversion_jobs'[j].status = FAILED
                /\ Mentions(conversion_jobs'[j].error, {TimedOut})
                /\ conversion_semaphore' > 0 ]_vars
    /\ [](\A j \in Waiting :
            (LoopIsFree /\ conversion_semaphore > 0)
                => ENABLED convert_pdf_to_ppt_acquire(j))

\* The external tool reported an unsupported conversion with exit code 0.
SoftFailure(outcome) ==
    /\ outcome.kind = "exit"
    /\ outcome.returncode = 0
    /\ outcome.stderr \in UnsupportedSignatures

\* The primary strategy failed and its diagnostic text does not carry the
\* signature.
HardFailure(outcome) ==
    /\ convert_with_libreoffice(outcome).raised
    /\ outcome.stderr \notin UnsupportedSignatures

\* C25: when the primary conversion exits with code 0 and its diagnostic text
\* matches the unsupported-operation signature, the alternative strategy has
\* been attempted by the time convert_pdf_to_ppt has anything to report, and
\* no failure has been recorded for the job before; when the primary
\* conversion fails with a diagnostic text that does not match, a failure is
\* reported and the alternative strategy was not attempted.
C25_FallbackOnlyOnSignature ==
    \A j \in Attempted :
        LET outcome == conversions[j].primary[1] IN
        /\ SoftFailure(outcome) =>
            /\ conversions[j].attempts = <<"libreoffice", "alternative">>
            /\ (conversions[j].pc = "return" /\ j \in DOMAIN conversion_jobs)
                    => conversion_jobs[j].status = PROCESSING
        /\ HardFailure(outcome) =>
            /\ conversions[j].attempts = <<"libreoffice">>
            /\ conversions[j].pc \in {"return", "print"}
            /\ ~conversions[j].result[1].success

\* C25 witness: the tool exited 0 reporting an unsupported conversion, the
\* alternative strategy was attempted and failed too, and convert_pdf_to_ppt
\* is about to return the failure.
C25_Witness ==
    \E j \in Attempted :
        /\ SoftFailure(conversions[j].primary[1])
        /\ conversions[j].pc = "return"
        /\ conversions[j].attempts = <<"libreoffice", "alternative">>
        /\ ~conversions[j].result[1].success

\* C26: whenever convert_pdf_to_ppt reports success, the presentation it
\* reports passes _validate_pptx_file, whichever strategy produced it.
C26_SuccessMeansValidated ==
    \A j \in Requested :
        ( /\ conversions[j].result # <<>>
          /\ conversions[j].result[1].success
          /\ conversions[j].result[1].output_file[1] \in DOMAIN disk )
            => \A i \in DOMAIN disk[FinalOutput(j)] :
                    validate_pptx_file(disk[FinalOutput(j)][i])

\* C27: after cleanup_conversion_job(jobId) has succeeded, a second call with
\* the same jobId succeeds too.
C27_CleanupTwiceSucceeds ==
    [][ \A job_id \in ConversionIds :
            ( /\ CleanupStatusCode(conversion_jobs, job_id) = 200
              /\ cleanup_conversion_job(job_id) )
                => CleanupStatusCode(conversion_jobs', job_id) = 200 ]_vars

\* ProcessingJob records with one status each, with and without a result.
JobsInStatus(status) ==
    { << [NewJob("optimize", FALSE) EXCEPT !.status = status,
                                           !.result = result] >> :
        result \in { <<>>, << [success |-> TRUE,
                               operation_performed |-> "optimize",
                               engine_used |-> MUPDF] >> } }

\* C28: the status of a job id that was never created is answered with 404
\* (not found), and the result or the download of a job whose status is not
\* COMPLETED with 400 (not completed), by the routes of the processing
\* service for every ProcessingJob and by the routes of the conversion
\* pipeline for every job of every reachable state.
C28_UnknownOrUnfinished ==
    /\ \A job_id \in 1 .. NumConversions + 1 :
        job_id \notin Requested =>
            get_conversion_status(conversion_jobs, job_id).status_code = 404
    /\ \A j \in DOMAIN conversion_jobs :
        conversion_jobs[j].status # COMPLETED =>
            download_converted_file(conversion_jobs, disk, j).status_code = 400
    /\ \A status \in JobStatus : \A table \in JobsInStatus(status) :
        /\ get_job_status(table, 2).status_code = 404
        /\ download_result(table, 2, TRUE).status_code = 404
        /\ get_job_result(table, 2).status_code = 404
        /\ status # COMPLETED =>
            /\ \A exists \in BOOLEAN :
                    download_result(table, 1, exists).status_code = 400
            /\ get_job_result(table, 1).status_code = 400

\* C28 witness: a conversion job that failed, whose output file nevertheless
\* is at its place, another one still waiting to start, and an id no request
\* was given.
C28_Witness ==
    /\ \E j \in DOMAIN conversion_jobs :
            /\ conversion_jobs[j].status = FAILED
            /\ FinalOutput(j) \in DOMAIN disk
    /\ \E j \in DOMAIN conversion_jobs : conversion_jobs[j].status = QUEUED
    /\ NumConversions + 1 \notin Requested

\* C29: a primary conversion that exits with a non-zero code makes
\* convert_pdf_to_ppt fail with an error carrying the captured diagnostic
\* text, the alternative strategy not being attempted, whatever the text is.
C29_NonZeroExitFails ==
    \A j \in Attempted :
        LET outcome == conversions[j].primary[1] IN
        (outcome.kind = "exit" /\ outcome.returncode # 0) =>
            /\ conversions[j].attempts = <<"libreoffice">>
            /\ conversions[j].result # <<>>
            /\ ~conversions[j].result[1].success
            /\ Mentions(conversions[j].result[1].error, {outcome.stderr})

\* _process_job marks its job PROCESSING inside the gate only, with started_at
\* written, and a job whose task waits at the gate is QUEUED.
ProcessingHoldsSlot ==
    \A j \in Created :
        /\ jobs[j].status = PROCESSING =>
                (InsideGate(j) /\ jobs[j].started_at)
        /\ tasks[j].pc = "queued" => jobs[j].status = QUEUED

\* C30: a job is marked PROCESSING only once its task holds a slot of the
\* concurrency gate and while it holds it, and a job that waits for a slot is
\* reported QUEUED: for _process_job, and for process_conversion_job with the
\* gate of the conversion backend.
C30_ProcessingOnlyInsideGate ==
    /\ ProcessingHoldsSlot
    /\ \A j \in DOMAIN conversion_jobs :
        /\ conversion_jobs[j].status = PROCESSING => InsideConversionGate(j)
        /\ conversions[j].pc = "wait" => conversion_jobs[j].status = QUEUED

\* The slots of the global gate (PDFProcessorService.processing_semaphore)
\* that are held.
GlobalSlotsHeld == max_concurrent_jobs - processing_semaphore

\* C31: every execution of the external-process conversion holds a slot of
\* the global gate as well as a slot of the conversion backend's gate, so the
\* jobs doing work at once, of both pipelines together, never exceed the
\* global ceiling.
C31_ConversionHoldsBothGates ==
    LET converting_now == {j \in Requested : ExternalProcess(j)}
        processing_now == {j \in Created : InsideGate(j)}
    IN  /\ Cardinality(converting_now)
                <= max_concurrent_conversions - conversion_semaphore
        /\ Cardinality(converting_now) + Cardinality(processing_now)
                <= GlobalSlotsHeld
        /\ Cardinality(converting_now) + Cardinality(processing_now)
                <= max_concurrent_jobs

\* The external tool exited 0 without the unsupported-operation signature and
\* left no presentation in the working directory.
ExitedWithoutOutput(outcome) ==
    /\ outcome.kind = "exit"
    /\ outcome.returncode = 0
    /\ outcome.stderr \notin UnsupportedSignatures
    /\ outcome.output = <<>>

\* C32: when the primary conversion exits 0 without the unsupported-operation
\* signature and no presentation is found in the working directory,
\* convert_pdf_to_ppt reports a failure with the no-output error, and never a
\* success; the job is never marked COMPLETED.
C32_NoOutputIsFailure ==
    \A j \in Attempted :
        ExitedWithoutOutput(conversions[j].primary[1]) =>
            /\ conversions[j].pc \in {"return", "print"}
            /\ conversions[j].result # <<>>
            /\ ~conversions[j].result[1].success
            /\ Mentions(conversions[j].result[1].error, {NoOutput})
            /\ j \in DOMAIN conversion_jobs =>
                    conversion_jobs[j].status # COMPLETED

\* C32 witness: the tool exited 0 and left nothing, and convert_pdf_to_ppt is
\* returning the failure.
C32_Witness ==
    \E j \in Attempted :
        /\ ExitedWithoutOutput(conversions[j].primary[1])
        /\ conversions[j].pc = "return"
        /\ ~conversions[j].result[1].success

\* convert_pdf_to_ppt of conversion j has just attempted both strategies, with
\* these outcomes, and both failed.
BothStrategiesFail(j, outcome, alt) ==
    /\ \E conversion_time \in Durations :
            run_libreoffice_command_returns(j, outcome, alt, conversion_time)
    /\ conversions'[j].attempts = <<"libreoffice", "alternative">>
    /\ convert_pdf_to_pptx_alternative(alt).raised

\* C33: when the alternative strategy is attempted and fails too, the failure
\* convert_pdf_to_ppt returns cites both causes: the unsupported-operation
\* diagnostic of the primary tool and the error of the alternative strategy.
C33_FailureCitesBothCauses ==
    [][ \A j \in Requested :
        \A outcome \in PrimaryOutcomes, alt \in AlternativeOutcomes :
            BothStrategiesFail(j, outcome, alt) =>
                LET result == conversions'[j].result[1] IN
                /\ conversions'[j].pc = "return"
                /\ ~result.success
                /\ outcome.stderr \in UnsupportedSignatures
                /\ Mentions(result.error, {outcome.stderr})
                /\ \A i \in DOMAIN convert_pdf_to_pptx_alternative(alt).value :
                    Mentions(result.error,
                        {convert_pdf_to_pptx_alternative(alt).value[i]}) ]_vars

\* C33 witness: both strategies were attempted, and the failure being returned
\* carries the tool's diagnostic and the rendering error of the alternative.
C33_Witness ==
    \E j \in Attempted :
        /\ conversions[j].pc = "return"
        /\ conversions[j].attempts = <<"libreoffice", "alternative">>
        /\ ~conversions[j].result[1].success
        /\ Mentions(conversions[j].result[1].error, UnsupportedSignatures)
        /\ Mentions(conversions[j].result[1].error, {RenderFailed})

\* convert_pdf_to_ppt of conversion j has left its try block: it is returning
\* or has returned.
Returned(j) == conversions[j].pc \in {"return", "print", "done", "raised"}

\* C34: once convert_pdf_to_ppt returns, with success or with any failure, the
\* working directory of the job is gone; on success the presentation is at
\* converted_<jobId>.pptx, where it was moved in the step that removed the
\* working directory and before the removal.
C34_WorkingDirectoryRemoved ==
    /\ [](\A j \in Requested :
            /\ Returned(j) => JobTempDir(j) \notin DOMAIN disk
            /\ ( /\ conversions[j].result # <<>>
                 /\ conversions[j].result[1].success )
                    => /\ FinalOutput(j) \in DOMAIN disk
                       /\ disk[FinalOutput(j)] # <<>>)
    /\ [][ \A j \in Requested :
            ( /\ JobTempDir(j) \in DOMAIN disk
              /\ JobTempDir(j) \notin DOMAIN disk'
              /\ conversions'[j].pc = "version" )
                => /\ FinalOutput(j) \in DOMAIN disk'
                   /\ disk'[FinalOutput(j)] # <<>> ]_vars

\* C34 witness: one conversion has returned success and its presentation is
\* at the final place, another one has returned a failure after its tool ran,
\* and neither working directory exists.
C34_Witness ==
    /\ \E j \in Requested :
            /\ conversions[j].pc = "print"
            /\ conversions[j].result[1].success
            /\ FinalOutput(j) \in DOMAIN disk
            /\ JobTempDir(j) \notin DOMAIN disk
    /\ \E j \in DOMAIN conversion_jobs :
            /\ ConversionOver(j)
            /\ conversion_jobs[j].status = FAILED
            /\ Mentions(conversion_jobs[j].error, {ExitCodeFailure})
            /\ JobTempDir(j) \notin DOMAIN disk

\* convert_pdf_to_ppt of conversion j has been called and has not returned.
InsideConvert(j) ==
    \/ conversions[j].pc \in {"wait", "primary", "version"}
    \/ conversions[j].pc = "pending" /\ j \in DOMAIN conversion_jobs

\* C40: convert_pdf_to_ppt never raises, whether the input validation, the
\* staging, a strategy or the handling of the presentation fails: a call of
\* it ends by returning a record with a success flag; with success False the
\* record carries an error message, and with success True an output_file that
\* exists at its final place.
C40_ConvertAlwaysReturnsRecord ==
    /\ [](\A j \in Requested :
            conversions[j].pc \in {"return", "print"} =>
                /\ conversions[j].result # <<>>
                /\ LET result == conversions[j].result[1] IN
                   IF result.success
                     THEN /\ result.output_file = <<FinalOutput(j)>>
                          /\ FinalOutput(j) \in DOMAIN disk
                     ELSE /\ result.error # <<>>
                          /\ result.error[1] = ConversionFailed
                          /\ Len(result.error) > 1)
    /\ [][ \A j \in Requested :
            (InsideConvert(j) /\ conversions'[j].pc # conversions[j].pc)
                => conversions'[j].pc \in {"wait", "primary", "version",
                                           "return"} ]_vars

\* C40 witness: the tool reported an unsupported conversion, the alternative
\* strategy saved a valid presentation, and convert_pdf_to_ppt returns success
\* with the file at its final place; another conversion, whose tool left no
\* presentation, returned a failure that its job records.
C40_Witness ==
    /\ \E j \in Attempted :
            /\ conversions[j].pc = "return"
            /\ conversions[j].attempts = <<"libreoffice", "alternative">>
            /\ conversions[j].result[1].success
            /\ conversions[j].result[1].output_file[1] \in DOMAIN disk
    /\ \E j \in DOMAIN conversion_jobs :
            /\ conversion_jobs[j].status = FAILED
            /\ conversion_jobs[j].error = <<ConversionFailed, NoOutput>>

\* The task of conversion j finishes in this step, its job having been
\* cleaned up while the task was in flight.
EndsAfterCleanup(j) ==
    /\ j \notin DOMAIN conversion_jobs
    /\ ~ConversionOver(j)
    /\ ConversionOver(j)'

\* C36: when cleanup_conversion_job(jobId) runs while the task of jobId is in
\* flight, the task still finishes without an unhandled exception, the job's
\* entry is not created again, and once the task has finished no presentation
\* of the job is left on disk.
C36_CleanupInFlightIsSafe ==
    [][ \A j \in Requested :
            EndsAfterCleanup(j) =>
                /\ conversions'[j].pc = "done"
                /\ j \notin DOMAIN conversion_jobs'
                /\ FinalOutput(j) \notin DOMAIN disk' ]_vars

\* The task of conversion j, whose conversion succeeded above the target,
\* comes to its end.
SlowSuccessEnds(j) ==
    /\ conversions[j].pc = "print"
    /\ conversions[j].result[1].success
    /\ conversions[j].result[1].conversion_time_seconds[1] > TargetSeconds
    /\ ConversionOver(j)'

\* C35: for a successful conversion within_performance_target is true exactly
\* when the measured duration is at most the target of 6 seconds, and a
\* duration above the target never makes a failure of it: convert_pdf_to_ppt
\* still returns success and the job ends COMPLETED.
C35_SlowConversionStillCompletes ==
    /\ [](\A j \in Requested :
            ( /\ conversions[j].result # <<>>
              /\ conversions[j].result[1].success ) =>
                LET result == conversions[j].result[1] IN
                /\ result.conversion_time_seconds = conversions[j].conversion_time
                /\ result.within_performance_target[1]
                        <=> result.conversion_time_seconds[1] <= 6)
    /\ [][ \A j \in Requested :
            /\ ( /\ conversions[j].pc = "version"
                 /\ conversions[j].conversion_time[1] > 6
                 /\ conversions'[j].pc # "version" )
                    => /\ conversions'[j].pc = "return"
                       /\ conversions'[j].result[1].success
            /\ SlowSuccessEnds(j) =>
                    /\ conversion_jobs'[j].status = COMPLETED
                    /\ conversion_jobs'[j].within_performance_target
                            = <<FALSE>> ]_vars

\* C37: in every reachable state a job has a result attached only if its
\* status is COMPLETED and an error attached only if its status is FAILED,
\* and no job carries both a result and an error.
C37_ResultXorError ==
    \A j \in Created :
        /\ jobs[j].result # <<>> => jobs[j].status = COMPLETED
        /\ jobs[j].error # NONE => jobs[j].status = FAILED
        /\ ~(jobs[j].result # <<>> /\ jobs[j].error # NONE)

\* C39: the task that executes job A writes only A's record and A's metrics
\* entry: for any two distinct jobs, running concurrently or not, every step
\* of A's task leaves B's status, progress, result, error and time stamps, and
\* B's metrics, unchanged.
C39_TaskWritesOwnRecordOnly ==
    [][ \A a \in Created : \A b \in Created \ {a} :
            tasks'[a] # tasks[a] =>
                /\ jobs'[b] = jobs[b]
                /\ metrics'[b] = metrics[b] ]_vars

\* C39 witness: two jobs are inside the gate at once, each marked PROCESSING
\* by its own task and each with progress written by its own handler, the two
\* at different progress.
C39_Witness ==
    \E a \in Created : \E b \in Created \ {a} :
        /\ InsideGate(a) /\ InsideGate(b)
        /\ jobs[a].status = PROCESSING /\ jobs[b].status = PROCESSING
        /\ tasks[a].n > 0 /\ tasks[b].n > 0
        /\ jobs[a].progress # jobs[b].progress

\* Every conversion requested comes to COMPLETED or FAILED, unless its entry
\* is cleaned up.
ConversionsTerminate ==
    \A j \in ConversionIds :
        (j \in Requested) ~>
            \/ j \notin DOMAIN conversion_jobs
            \/ conversion_jobs[j].status \in {COMPLETED, FAILED}

\* C38: under fair scheduling, with every handler and every run of the
\* external tool finishing or timing out, every submitted job eventually
\* reaches COMPLETED or FAILED, the jobs that had to wait for a slot of the
\* gate included: no job stays QUEUED or PROCESSING forever.
C38_EveryJobTerminates ==
    \A j \in JobIds :
        (j \in Created) ~> (j \in Created /\ jobs[j].status \in Terminal)

\* C38 witness: more jobs were submitted than the gate has slots, every one of
\* them got its slot and is COMPLETED or FAILED now, and every task is over.
C38_Witness ==
    /\ Cardinality(Created) = NumJobs
    /\ NumJobs > max_concurrent_jobs
    /\ \A j \in Created :
        /\ jobs[j].status \in Terminal
        /\ jobs[j].started_at
        /\ tasks[j].pc \in Finished
    /\ \E j \in Created : jobs[j].status = COMPLETED
    /\ \E j \in Created : jobs[j].status = FAILED

====
